---- MODULE Spec2Model ----
(***************************************************************************)
(* A model of src/app.py (NASA Weather Insights): the condition            *)
(* classifier, the statistical aggregator, the observation set builder and *)
(* the /results request handler.                                           *)
(*                                                                         *)
(* Numbers.  An observation value is a whole number of its unit (degrees   *)
(* Celsius, m/s, mm).  A statistic that the code rounds to one decimal     *)
(* place is held in tenths of the unit (22.3 is 223).  Python's round() is *)
(* round-half-to-even; for whole-number observations over at most ten      *)
(* years every tie is a multiple of 1/4, which a float holds exactly, so   *)
(* RoundHalfEven computes what the code computes.                          *)
(*                                                                         *)
(* Optional values.  Python's None is the empty sequence and a present     *)
(* value v is <<v>>.                                                       *)
(***************************************************************************)
EXTENDS Integers, Sequences, FiniteSets, TLC

VARIABLES
    pc,               \* position of the /results handler
    form,             \* request.form: [location, datetime]
    target_datetime,  \* the parsed date/time, None before parsing
    coords,           \* result of get_coordinates
    response,         \* the NASA POWER response of the current fetch
    historical_data,  \* the observation set (a sequence of entries)
    analysis,         \* result of analyze_weather_data
    tip,              \* result of generate_tip
    flashes,          \* the messages flashed so far
    outcome,          \* what the handler returned
    calls,            \* the collaborators invoked so far, in order
    raised,           \* the exception raised inside the handler's try block
    args,             \* arguments of a direct call of a pure function
    label             \* result of a direct call of determine_main_condition

vars == <<pc, form, target_datetime, coords, response, historical_data,
          analysis, tip, flashes, outcome, calls, raised, args, label>>

\* ------------------------------------------------------------------ bounds

\* Largest number of years in an observation set built or analysed directly.
MaxYears == 3

\* ----------------------------------------------------------------- helpers

None == <<>>

Some(v) == <<v>>

\* dict.get(key, default)
Get(map, key, default) == IF key \in DOMAIN map THEN map[key] ELSE default

RECURSIVE Sum(_)
Sum(s) == IF s = <<>> THEN 0 ELSE Head(s) + Sum(Tail(s))

Range(s) == {s[i] : i \in DOMAIN s}

\* min(list) and max(list) of a non-empty list
Min(s) == CHOOSE x \in Range(s) : \A y \in Range(s) : x <= y

Max(s) == CHOOSE x \in Range(s) : \A y \in Range(s) : x >= y

\* round(num / den) with ties to the even integer, den > 0
RoundHalfEven(num, den) ==
    LET q == num \div den
        r == num % den
    IN  IF 2 * r < den THEN q
        ELSE IF 2 * r > den THEN q + 1
        ELSE IF q % 2 = 0 THEN q ELSE q + 1

\* round(mean(values), 1), in tenths
RoundedMean(values) == RoundHalfEven(10 * Sum(values), Len(values))

\* round(x, 1) of a whole number x, in tenths
Round1(x) == 10 * x

\* -------------------------------------------------------------- classifier

Labels == {"Rainy", "Hot", "Cold", "Windy", "Pleasant", "Warm", "Cool"}

\* A mis-ordered classifier: the temperature rule is tried before the rain rule.
determine_main_condition_hot_first(avg_temp, max_temp, avg_rain, max_wind) ==
    IF max_temp > 320 THEN "Hot"
    ELSE IF avg_rain > 100 THEN "Rainy"
    ELSE IF avg_temp < 100 THEN "Cold"
    ELSE IF max_wind > 120 THEN "Windy"
    ELSE IF 180 <= avg_temp /\ avg_temp <= 250 THEN "Pleasant"
    ELSE IF avg_temp > 250 THEN "Warm"
    ELSE "Cool"

\* determine_main_condition; the arguments are in tenths.
determine_main_condition(avg_temp, max_temp, avg_rain, max_wind) ==
    IF avg_rain > 100 THEN "Rainy"
    ELSE IF max_temp > 320 THEN "Hot"
    ELSE IF avg_temp < 100 THEN "Cold"
    ELSE IF max_wind > 120 THEN "Windy"
    ELSE IF 180 <= avg_temp /\ avg_temp <= 250 THEN "Pleasant"
    ELSE IF avg_temp > 250 THEN "Warm"
    ELSE "Cool"

\* -------------------------------------------------------------- aggregator

Fields == {"temp_avg", "temp_max", "temp_min", "wind_avg", "wind_max", "precip"}

\* Per-year filtering: a value counts only if its entry has all six fields.
RECURSIVE ValidValuesWholeYears(_, _)
ValidValuesWholeYears(data, f) ==
    IF data = <<>> THEN <<>>
    ELSE (IF \A g \in Fields : Head(data)[g] # None
          THEN <<Head(data)[f][1]>> ELSE <<>>)
         \o ValidValuesWholeYears(Tail(data), f)

\* [d[f] for d in historical_data if d.get(f) is not None]
RECURSIVE ValidValues(_, _)
ValidValues(data, f) ==
    IF data = <<>> THEN <<>>
    ELSE (IF Head(data)[f] # None THEN <<Head(data)[f][1]>> ELSE <<>>)
         \o ValidValues(Tail(data), f)

\* sum(1 for v in values if v > threshold)
CountAbove(values, threshold) ==
    Cardinality({i \in DOMAIN values : values[i] > threshold})

\* sum(1 for v in values if v < threshold)
CountBelow(values, threshold) ==
    Cardinality({i \in DOMAIN values : values[i] < threshold})

\* round((count / total_days) * 100) if total_days > 0 else 0
Probability(count, total_days) ==
    IF total_days > 0 THEN RoundHalfEven(100 * count, total_days) ELSE 0

\* The denominator is the number of entries that have the field.
probabilities_valid_denominator(data) ==
    LET valid_temps_max == ValidValues(data, "temp_max")
        valid_temps_min == ValidValues(data, "temp_min")
        valid_winds_max == ValidValues(data, "wind_max")
        valid_precip    == ValidValues(data, "precip")
    IN  [very_hot   |-> Probability(CountAbove(valid_temps_max, 30), Len(valid_temps_max)),
         very_cold  |-> Probability(CountBelow(valid_temps_min, 10), Len(valid_temps_min)),
         very_windy |-> Probability(CountAbove(valid_winds_max, 10), Len(valid_winds_max)),
         very_wet   |-> Probability(CountAbove(valid_precip, 10), Len(valid_precip))]

\* A missing value is read as 0, so a missing temp_min counts as very cold.
probabilities_missing_as_zero(data) ==
    LET total_days == Len(data)
        Zeroed(f)  == [i \in DOMAIN data |->
                          IF data[i][f] # None THEN data[i][f][1] ELSE 0]
    IN  [very_hot   |-> Probability(CountAbove(Zeroed("temp_max"), 30), total_days),
         very_cold  |-> Probability(CountBelow(Zeroed("temp_min"), 10), total_days),
         very_windy |-> Probability(CountAbove(Zeroed("wind_max"), 10), total_days),
         very_wet   |-> Probability(CountAbove(Zeroed("precip"), 10), total_days)]

\* The probs dictionary of analyze_weather_data.
probabilities(data) ==
    LET total_days      == Len(data)
        valid_temps_max == ValidValues(data, "temp_max")
        valid_temps_min == ValidValues(data, "temp_min")
        valid_winds_max == ValidValues(data, "wind_max")
        valid_precip    == ValidValues(data, "precip")
    IN  [very_hot   |-> Probability(CountAbove(valid_temps_max, 30), total_days),
         very_cold  |-> Probability(CountBelow(valid_temps_min, 10), total_days),
         very_windy |-> Probability(CountAbove(valid_winds_max, 10), total_days),
         very_wet   |-> Probability(CountAbove(valid_precip, 10), total_days)]

\* Every absent group defaults to zero, the temperature extremes included.
statistics_all_zero_defaults(data) ==
    LET valid_temps_avg == ValidValues(data, "temp_avg")
        valid_temps_max == ValidValues(data, "temp_max")
        valid_temps_min == ValidValues(data, "temp_min")
        valid_winds_avg == ValidValues(data, "wind_avg")
        valid_winds_max == ValidValues(data, "wind_max")
        valid_precip    == ValidValues(data, "precip")
    IN  [avg_temp |-> RoundedMean(valid_temps_avg),
         min_temp |-> IF valid_temps_min # <<>> THEN Round1(Min(valid_temps_min)) ELSE 0,
         max_temp |-> IF valid_temps_max # <<>> THEN Round1(Max(valid_temps_max)) ELSE 0,
         avg_wind |-> IF valid_winds_avg # <<>> THEN RoundedMean(valid_winds_avg) ELSE 0,
         max_wind |-> IF valid_winds_max # <<>> THEN Round1(Max(valid_winds_max)) ELSE 0,
         avg_rain |-> IF valid_precip # <<>> THEN RoundedMean(valid_precip) ELSE 0,
         max_rain |-> IF valid_precip # <<>> THEN Round1(Max(valid_precip)) ELSE 0]

\* The seven statistics of analyze_weather_data, in tenths; the caller has
\* checked that some temp_avg is present.
statistics(data) ==
    LET valid_temps_avg == ValidValues(data, "temp_avg")
        valid_temps_max == ValidValues(data, "temp_max")
        valid_temps_min == ValidValues(data, "temp_min")
        valid_winds_avg == ValidValues(data, "wind_avg")
        valid_winds_max == ValidValues(data, "wind_max")
        valid_precip    == ValidValues(data, "precip")
        avg_temp        == RoundedMean(valid_temps_avg)
    IN  [avg_temp |-> avg_temp,
         min_temp |-> IF valid_temps_min # <<>> THEN Round1(Min(valid_temps_min)) ELSE avg_temp,
         max_temp |-> IF valid_temps_max # <<>> THEN Round1(Max(valid_temps_max)) ELSE avg_temp,
         avg_wind |-> IF valid_winds_avg # <<>> THEN RoundedMean(valid_winds_avg) ELSE 0,
         max_wind |-> IF valid_winds_max # <<>> THEN Round1(Max(valid_winds_max)) ELSE 0,
         avg_rain |-> IF valid_precip # <<>> THEN RoundedMean(valid_precip) ELSE 0,
         max_rain |-> IF valid_precip # <<>> THEN Round1(Max(valid_precip)) ELSE 0]

\* The analysis is refused as soon as one entry lacks its temp_avg.
analyze_weather_data_any_missing(data) ==
    IF data = <<>> THEN None
    ELSE IF Len(ValidValues(data, "temp_avg")) < Len(data) THEN None
    ELSE LET s == statistics(data)
         IN  Some([main_prediction |-> determine_main_condition(
                                           s.avg_temp, s.max_temp, s.avg_rain, s.max_wind),
                   temp_range      |-> [min |-> s.min_temp, max |-> s.max_temp],
                   avg_temp        |-> s.avg_temp,
                   wind_info       |-> [avg |-> s.avg_wind, max |-> s.max_wind],
                   rain_info       |-> [avg |-> s.avg_rain, max |-> s.max_rain],
                   probabilities   |-> probabilities(data),
                   confidence      |-> Len(data)])

\* analyze_weather_data: None, or Some(results).  The formatted strings
\* temp_range, wind_info and rain_info are held as the numbers they print.
analyze_weather_data(data) ==
    IF data = <<>> THEN None
    ELSE IF ValidValues(data, "temp_avg") = <<>> THEN None
    ELSE LET s == statistics(data)
         IN  Some([main_prediction |-> determine_main_condition(
                                           s.avg_temp, s.max_temp, s.avg_rain, s.max_wind),
                   temp_range      |-> [min |-> s.min_temp, max |-> s.max_temp],
                   avg_temp        |-> s.avg_temp,
                   wind_info       |-> [avg |-> s.avg_wind, max |-> s.max_wind],
                   rain_info       |-> [avg |-> s.avg_rain, max |-> s.max_rain],
                   probabilities   |-> probabilities(data),
                   confidence      |-> Len(data)])

\* generate_tip: the template chosen and the value interpolated into it.
generate_tip(main_prediction, temp_range, rain_info) ==
    CASE main_prediction = "Hot"      -> [template |-> "Hot day ahead", shows |-> temp_range]
      [] main_prediction = "Warm"     -> [template |-> "Warm and comfy", shows |-> temp_range]
      [] main_prediction = "Pleasant" -> [template |-> "Perfect day", shows |-> temp_range]
      [] main_prediction = "Cool"     -> [template |-> "Cool temperatures", shows |-> temp_range]
      [] main_prediction = "Cold"     -> [template |-> "Cold weather", shows |-> temp_range]
      [] main_prediction = "Rainy"    -> [template |-> "Expect rain", shows |-> rain_info]
      [] main_prediction = "Windy"    -> [template |-> "Strong winds expected", shows |-> None]
      [] OTHER -> [template |-> "Check the weather before heading out.", shows |-> None]

\* ---------------------------------------------------- observation builder

ParamNames == {"T2M", "T2M_MAX", "T2M_MIN", "WS10M", "WS10M_MAX", "PRECTOTCORR"}

\* f"{year}{month:02d}{day:02d}": the digits of a four-digit year, then the
\* month and the day on two digits each, held as the number they spell.
DateStr(year, month, day) == year * 10000 + month * 100 + day

\* The window wrongly runs through the current year.
YearRangeThroughCurrent(current_year, years) ==
    [start |-> current_year - years, end |-> current_year]

\* start_year and end_year
YearRange(current_year, years) ==
    [start |-> current_year - years, end |-> current_year - 1]

\* The loop of get_historical_weather_nasa, from `year` to end_year inclusive.
RECURSIVE CollectYears(_, _, _, _, _)
CollectYears(params_data, year, end_year, month, day) ==
    IF year > end_year THEN <<>>
    ELSE LET date_str  == DateStr(year, month, day)
             temp_data == Get(params_data, "T2M", <<>>)
             Field(p)  == Get(Get(params_data, p, <<>>), date_str, None)
         IN  (IF date_str \in DOMAIN temp_data
              THEN << [year     |-> year,
                       date     |-> date_str,
                       temp_avg |-> Field("T2M"),
                       temp_max |-> Field("T2M_MAX"),
                       temp_min |-> Field("T2M_MIN"),
                       wind_avg |-> Field("WS10M"),
                       wind_max |-> Field("WS10M_MAX"),
                       precip   |-> Field("PRECTOTCORR")] >>
              ELSE <<>>)
             \o CollectYears(params_data, year + 1, end_year, month, day)

\* get_historical_weather_nasa, given what requests.get and response.json()
\* produce (resp) and what datetime.now().year reads (current_year).  lat and
\* lon only go into the request.
get_historical_weather_nasa(resp, current_year, target_date, years) ==
    LET range == YearRange(current_year, years)
    IN  IF resp.raises THEN <<>>
        ELSE IF resp.status_code # 200 THEN <<>>
        ELSE IF ~resp.json_ok THEN <<>>
        ELSE IF "properties" \notin DOMAIN resp.data THEN <<>>
        ELSE IF "parameter" \notin DOMAIN resp.data["properties"] THEN <<>>
        ELSE CollectYears(resp.data["properties"]["parameter"], range.start,
                          range.end, target_date.month, target_date.day)

\* ------------------------------------------------------- location resolver

\* A place name is a sequence of characters.
UpperToLower == [c \in {"P", "N", "O"} |->
                    IF c = "P" THEN "p" ELSE IF c = "N" THEN "n" ELSE "o"]

\* str.lower()
Lower(s) == [i \in DOMAIN s |-> Get(UpperToLower, s[i], s[i])]

\* str.strip()
RECURSIVE Strip(_)
Strip(s) ==
    IF s = <<>> THEN s
    ELSE IF Head(s) = " " THEN Strip(Tail(s))
    ELSE IF s[Len(s)] = " " THEN Strip(SubSeq(s, 1, Len(s) - 1))
    ELSE s

\* a in b, for strings
IsSubstring(a, b) ==
    \E i \in 0..(Len(b) - Len(a)) : SubSeq(b, i + 1, i + Len(a)) = a

\* fallback_cities in insertion order; lat and lon in 1/10000 degree.
fallback_cities ==
    << [city |-> <<"d","o","u","a","l","a">>,
        coords |-> [lat |-> 40511, lon |-> 97679, display_name |-> "Douala, Cameroon"]],
       [city |-> <<"y","a","o","u","n","d","e">>,
        coords |-> [lat |-> 38480, lon |-> 115021, display_name |-> "Yaounde, Cameroon"]],
       [city |-> <<"p","a","r","i","s">>,
        coords |-> [lat |-> 488566, lon |-> 23522, display_name |-> "Paris, France"]],
       [city |-> <<"l","o","n","d","o","n">>,
        coords |-> [lat |-> 515074, lon |-> -1278, display_name |-> "London, UK"]],
       [city |-> <<"n","e","w"," ","y","o","r","k">>,
        coords |-> [lat |-> 407128, lon |-> -740060, display_name |-> "New York, USA"]],
       [city |-> <<"t","o","k","y","o">>,
        coords |-> [lat |-> 356762, lon |-> 1396503, display_name |-> "Tokyo, Japan"]],
       [city |-> <<"l","a","g","o","s">>,
        coords |-> [lat |-> 65244, lon |-> 33792, display_name |-> "Lagos, Nigeria"]],
       [city |-> <<"n","a","i","r","o","b","i">>,
        coords |-> [lat |-> -12864, lon |-> 368172, display_name |-> "Nairobi, Kenya"]],
       [city |-> <<"c","a","i","r","o">>,
        coords |-> [lat |-> 300444, lon |-> 312357, display_name |-> "Cairo, Egypt"]] >>

\* The fuzzy match: the first fallback city that contains the name or is
\* contained in it, else None.
FuzzyMatch(location_lower) ==
    LET hits == {i \in DOMAIN fallback_cities :
                    \/ IsSubstring(fallback_cities[i].city, location_lower)
                    \/ IsSubstring(location_lower, fallback_cities[i].city)}
    IN  IF hits = {} THEN None
        ELSE Some(fallback_cities[CHOOSE i \in hits : \A j \in hits : i <= j].coords)

\* get_coordinates, given what the Nominatim request does (api): it times
\* out, fails otherwise, answers with no match or answers with a first match.
get_coordinates(location, api) ==
    LET location_lower == Strip(Lower(location))
        exact == {i \in DOMAIN fallback_cities :
                     fallback_cities[i].city = location_lower}
    IN  IF exact # {} THEN Some(fallback_cities[CHOOSE i \in exact : TRUE].coords)
        ELSE IF api.kind = "match" THEN Some(api.first)
        ELSE IF api.kind = "no_match" THEN FuzzyMatch(location_lower)
        ELSE IF api.kind = "timeout" THEN FuzzyMatch(location_lower)
        ELSE None

\* ----------------------------------------------------------------- inputs

\* Three complete observations: a cold day, a mild day that sits on the
\* thresholds, and a hot, windy and wet day.
BaseObservations ==
    { [temp_avg |-> 5,  temp_max |-> 8,  temp_min |-> 2,
       wind_avg |-> 3,  wind_max |-> 6,  precip |-> 1],
      [temp_avg |-> 22, temp_max |-> 31, temp_min |-> 10,
       wind_avg |-> 4,  wind_max |-> 11, precip |-> 10],
      [temp_avg |-> 27, temp_max |-> 34, temp_min |-> 21,
       wind_avg |-> 8,  wind_max |-> 13, precip |-> 15] }

\* The fields an entry may lack.
AbsenceMasks ==
    { {}, {"temp_avg"}, {"temp_max"}, {"temp_min"}, {"wind_max"}, {"precip"},
      {"wind_avg", "wind_max", "precip"}, Fields \ {"temp_avg"} }

TargetDates == { [month |-> 3, day |-> 15], [month |-> 2, day |-> 29] }

CurrentYears == { 2026 }

Entry(base, mask, year, target_date) ==
    LET Opt(f) == IF f \in mask THEN None ELSE Some(base[f])
    IN  [year     |-> year,
         date     |-> DateStr(year, target_date.month, target_date.day),
         temp_avg |-> Opt("temp_avg"), temp_max |-> Opt("temp_max"),
         temp_min |-> Opt("temp_min"), wind_avg |-> Opt("wind_avg"),
         wind_max |-> Opt("wind_max"), precip   |-> Opt("precip")]

\* The observation set of consecutive years whose i-th entry is the base
\* observation c[i][1] without the fields c[i][2].
ObservationSet(c) ==
    [i \in DOMAIN c |-> Entry(c[i][1], c[i][2], 2015 + i, [month |-> 3, day |-> 15])]

\* Statistics in tenths around every threshold of the classifier.
ClassifierInputs ==
    [avg_temp : {50, 99, 100, 179, 180, 250, 251, 300},
     max_temp : {300, 320, 321, 350},
     avg_rain : {0, 100, 101, 150},
     max_wind : {0, 120, 121, 130}]

\* What a response holds for one date: nothing, a null T2M, a T2M alone,
\* every parameter, or every parameter but T2M.
DateShapes == {"absent", "null_t2m", "t2m_only", "full", "no_t2m"}

ParamBase == [T2M |-> 20, T2M_MAX |-> 28, T2M_MIN |-> 8,
              WS10M |-> 3, WS10M_MAX |-> 9, PRECTOTCORR |-> 8]

\* The value a response holds for parameter p on a date; it differs from one
\* year to the next.
ParamValue(p, date_str) == ParamBase[p] + ((date_str \div 10000) % 5)

HasParam(p, shape) ==
    CASE shape = "absent"   -> FALSE
      [] shape = "null_t2m" -> TRUE
      [] shape = "t2m_only" -> p = "T2M"
      [] shape = "full"     -> TRUE
      [] shape = "no_t2m"   -> p # "T2M"

\* data['properties']['parameter'] of a response whose dates have the given shapes.
ParameterOf(shapes) ==
    [p \in ParamNames |->
        [d \in {k \in DOMAIN shapes : HasParam(p, shapes[k])} |->
            IF p = "T2M" /\ shapes[d] = "null_t2m" THEN None
            ELSE Some(ParamValue(p, d))]]

Empty == [x \in {} |-> x]

GoodResponse(parameter) ==
    [raises |-> FALSE, status_code |-> 200, json_ok |-> TRUE,
     data |-> [properties |-> [parameter |-> parameter]]]

\* A well-formed response whose parameters lack 'T2M': every other parameter
\* has a value on every date of `dates`.
ResponseWithoutT2M(dates) ==
    GoodResponse([p \in ParamNames \ {"T2M"} |->
                     [d \in dates |-> Some(ParamValue(p, d))]])

\* The responses that carry no usable data: the request raises, the status is
\* not 200, the body is no JSON, the JSON lacks 'properties' or 'parameter'.
BadResponses ==
    { [raises |-> TRUE,  status_code |-> 0,   json_ok |-> FALSE, data |-> Empty],
      [raises |-> FALSE, status_code |-> 500, json_ok |-> TRUE,  data |-> Empty],
      [raises |-> FALSE, status_code |-> 200, json_ok |-> FALSE, data |-> Empty],
      [raises |-> FALSE, status_code |-> 200, json_ok |-> TRUE,  data |-> Empty],
      [raises |-> FALSE, status_code |-> 200, json_ok |-> TRUE,
       data |-> [properties |-> Empty]] }

\* The responses of a direct call: the dates of the MaxYears years before
\* current_year take any shape; the year before them, the current year and
\* the day after the target day are absent or full.
BuilderResponses(current_year, target_date) ==
    LET Key(y)  == DateStr(y, target_date.month, target_date.day)
        inner   == {Key(y) : y \in (current_year - MaxYears)..(current_year - 1)}
        outer   == {Key(current_year - MaxYears - 1), Key(current_year),
                    Key(current_year - 1) + 1}
    IN  BadResponses \cup {ResponseWithoutT2M(inner \cup outer)} \cup
        { GoodResponse(ParameterOf(s)) :
            s \in { f \in [inner \cup outer -> DateShapes] :
                      \A k \in outer : f[k] \in {"absent", "full"} } }

\* The locations a form may carry: none, blanks, a fallback city in another
\* case and padded, a fragment of a fallback city, an unknown place.
Locations ==
    { <<>>, <<" ">>, <<" ", "P", "a", "r", "i", "s">>, <<"N", "e", "w">>, <<"O", "z">> }

\* The date/time fields a form may carry, as the numbers of YYYY-MM-DDTHH:MM;
\* the empty string, two well-formed ones, 29 February of a common year, and
\* a string cut short.
Datetimes ==
    { <<>>, <<2027, 3, 15, 9, 30>>, <<2028, 2, 29, 0, 0>>, <<2027, 2, 29, 12, 0>>,
      <<2027, 3>> }

NominatimAnswers ==
    { [kind |-> k,
       first |-> [lat |-> -250000, lon |-> 1330000, display_name |-> "Oz"]] :
        k \in {"timeout", "error", "no_match", "match"} }

\* The responses a request of the handler may get: for the first and the last
\* year of its window, the year before the window and the current year, the
\* date is absent, has a null T2M or has every parameter.
HandlerResponses(current_year, years, target_date) ==
    LET Key(y) == DateStr(y, target_date.month, target_date.day)
        keys   == {Key(current_year - years - 1), Key(current_year - years),
                   Key(current_year - 1), Key(current_year)}
    IN  BadResponses \cup {ResponseWithoutT2M(keys)} \cup
        { GoodResponse(ParameterOf(s)) : s \in [keys -> {"absent", "null_t2m", "full"}] }

\* ---------------------------------------------------------- request handler

IsLeap(y) == (y % 4 = 0 /\ y % 100 # 0) \/ y % 400 = 0

DaysInMonth(y, m) ==
    IF m = 2 THEN (IF IsLeap(y) THEN 29 ELSE 28)
    ELSE IF m \in {4, 6, 9, 11} THEN 30 ELSE 31

\* datetime.strptime(datetime_str, '%Y-%m-%dT%H:%M'): the date/time, or None
\* where strptime raises ValueError.
strptime(datetime_str) ==
    IF /\ Len(datetime_str) = 5
       /\ datetime_str[1] \in 1..9999
       /\ datetime_str[2] \in 1..12
       /\ datetime_str[3] \in 1..DaysInMonth(datetime_str[1], datetime_str[2])
       /\ datetime_str[4] \in 0..23
       /\ datetime_str[5] \in 0..59
    THEN Some([year |-> datetime_str[1], month |-> datetime_str[2],
               day |-> datetime_str[3], hour |-> datetime_str[4],
               minute |-> datetime_str[5]])
    ELSE None

\* The window the handler asks for: years=10.
HandlerYears == 10

NoDataMessage == "Could not get NASA weather data. Try again."

\* The analysis failure reported with the words of the data failure.
NoAnalysisMessageAsNoData == "Could not get NASA weather data. Try again."

NoAnalysisMessage == "Error analyzing the data."

\* Only ValueError is caught; any other exception leaves the handler.
results_except_value_error_only(exc) ==
    IF exc = "ValueError"
    THEN [flash |-> <<"Invalid date/time format.">>, outcome |-> "redirect_home"]
    ELSE [flash |-> <<>>, outcome |-> "unhandled"]

\* The except clauses of results: the messages flashed and what is returned.
results_except(exc) ==
    IF exc = "ValueError"
    THEN [flash |-> <<"Invalid date/time format.">>, outcome |-> "redirect_home"]
    ELSE [flash |-> <<"An unexpected error occurred.">>, outcome |-> "redirect_home"]

\* flash(message, 'error'); return redirect(url_for('home'))
FlashAndRedirect(message) ==
    /\ flashes' = Append(flashes, message)
    /\ outcome' = "redirect_home"
    /\ pc' = "done"
    /\ UNCHANGED raised

\* An exception leaves the try block and reaches the except clauses.
Raise(exc) ==
    /\ raised' = Some(exc)
    /\ flashes' = flashes \o results_except(exc).flash
    /\ outcome' = results_except(exc).outcome
    /\ pc' = "done"

\* A POST to /results arrives.
Request ==
    /\ pc = "idle"
    /\ \E location \in Locations, datetime \in Datetimes :
           form' = [location |-> location, datetime |-> datetime]
    /\ pc' = "validate"
    /\ UNCHANGED <<target_datetime, coords, response, historical_data, analysis,
                   tip, flashes, outcome, calls, raised, args, label>>

\* The form is read and the date/time parsed.
Validate ==
    /\ pc = "validate"
    /\ LET location     == Strip(form.location)
           datetime_str == form.datetime
       IN  IF location = <<>> \/ datetime_str = <<>>
           THEN /\ FlashAndRedirect("Please enter both location and date/time.")
                /\ UNCHANGED target_datetime
           ELSE IF strptime(datetime_str) = None
           THEN /\ Raise("ValueError")
                /\ UNCHANGED target_datetime
           ELSE /\ target_datetime' = strptime(datetime_str)
                /\ pc' = "geocode"
                /\ UNCHANGED <<flashes, outcome, raised>>
    /\ UNCHANGED <<form, coords, response, historical_data, analysis, tip,
                   calls, args, label>>

\* coords = get_coordinates(location)
Geocode ==
    /\ pc = "geocode"
    /\ calls' = Append(calls, "get_coordinates")
    /\ \E api \in NominatimAnswers :
           coords' = get_coordinates(Strip(form.location), api)
    /\ IF coords' = None
       THEN FlashAndRedirect("Could not find that location. Try again.")
       ELSE /\ pc' = "fetch"
            /\ UNCHANGED <<flashes, outcome, raised>>
    /\ UNCHANGED <<form, target_datetime, response, historical_data, analysis,
                   tip, args, label>>

\* The data fetch goes on to the analysis even with an empty observation set.
FetchWithoutEmptyCheck ==
    /\ pc = "fetch"
    /\ calls' = Append(calls, "get_historical_weather_nasa")
    /\ \E current_year \in CurrentYears :
         \E resp \in HandlerResponses(current_year, HandlerYears, target_datetime[1]) :
           /\ response' = resp
           /\ historical_data' = get_historical_weather_nasa(
                                     resp, current_year, target_datetime[1], HandlerYears)
    /\ pc' = "analyze"
    /\ UNCHANGED <<flashes, outcome, raised>>
    /\ UNCHANGED <<form, target_datetime, coords, analysis, tip, args, label>>

\* historical_data = get_historical_weather_nasa(lat, lon, target_datetime, years=10)
Fetch ==
    /\ pc = "fetch"
    /\ calls' = Append(calls, "get_historical_weather_nasa")
    /\ \E current_year \in CurrentYears :
         \E resp \in HandlerResponses(current_year, HandlerYears, target_datetime[1]) :
           /\ response' = resp
           /\ historical_data' = get_historical_weather_nasa(
                                     resp, current_year, target_datetime[1], HandlerYears)
    /\ IF historical_data' = <<>>
       THEN FlashAndRedirect(NoDataMessage)
       ELSE /\ pc' = "analyze"
            /\ UNCHANGED <<flashes, outcome, raised>>
    /\ UNCHANGED <<form, target_datetime, coords, analysis, tip, args, label>>

\* analysis = analyze_weather_data(historical_data); the call raises when the
\* response holds values that are no numbers.
Analyze ==
    /\ pc = "analyze"
    /\ calls' = Append(calls, "analyze_weather_data")
    /\ \E numeric \in BOOLEAN :
         IF ~numeric
         THEN /\ Raise("TypeError")
              /\ UNCHANGED analysis
         ELSE /\ analysis' = analyze_weather_data(historical_data)
              /\ IF analysis' = None
                 THEN FlashAndRedirect(NoAnalysisMessage)
                 ELSE /\ pc' = "advise"
                      /\ UNCHANGED <<flashes, outcome, raised>>
    /\ UNCHANGED <<form, target_datetime, coords, response, historical_data,
                   tip, args, label>>

\* tip = generate_tip(...); return render_template('results.html', ...); the
\* rendering may raise.
Advise ==
    /\ pc = "advise"
    /\ calls' = Append(calls, "generate_tip")
    /\ tip' = Some(generate_tip(analysis[1].main_prediction,
                                analysis[1].temp_range, analysis[1].rain_info))
    /\ \E rendered \in BOOLEAN :
         IF rendered
         THEN /\ outcome' = "rendered"
              /\ pc' = "done"
              /\ UNCHANGED <<flashes, raised>>
         ELSE Raise("TemplateError")
    /\ UNCHANGED <<form, target_datetime, coords, response, historical_data,
                   analysis, args, label>>

NoResponse == [raises |-> FALSE, status_code |-> 0, json_ok |-> FALSE, data |-> Empty]

Idle ==
    /\ form = [location |-> <<>>, datetime |-> <<>>]
    /\ target_datetime = None
    /\ coords = None
    /\ response = NoResponse
    /\ historical_data = <<>>
    /\ analysis = None
    /\ tip = None
    /\ flashes = <<>>
    /\ outcome = "pending"
    /\ calls = <<>>
    /\ raised = None
    /\ args = None
    /\ label = None

Init == pc = "idle" /\ Idle

Next == Request \/ Validate \/ Geocode \/ Fetch \/ Analyze \/ Advise

Spec == Init /\ [][Next]_vars

\* ------------------------------------------ direct calls of the functions

\* determine_main_condition called on any statistics.
InitClassify ==
    /\ pc = "call"
    /\ Idle!1 /\ Idle!2 /\ Idle!3 /\ Idle!4 /\ Idle!5 /\ Idle!6 /\ Idle!7
    /\ Idle!8 /\ Idle!9 /\ Idle!10 /\ Idle!11 /\ Idle!13
    /\ args \in ClassifierInputs

ClassifyCall ==
    /\ pc = "call"
    /\ label' = Some(determine_main_condition(args.avg_temp, args.max_temp,
                                              args.avg_rain, args.max_wind))
    /\ pc' = "returned"
    /\ UNCHANGED <<form, target_datetime, coords, response, historical_data,
                   analysis, tip, flashes, outcome, calls, raised, args>>

SpecClassify == InitClassify /\ [][ClassifyCall]_vars

\* analyze_weather_data called on any observation set of at most MaxYears years.
InitAnalyze ==
    /\ pc = "call"
    /\ Idle!1 /\ Idle!2 /\ Idle!3 /\ Idle!4 /\ Idle!6 /\ Idle!7
    /\ Idle!8 /\ Idle!9 /\ Idle!10 /\ Idle!11 /\ Idle!12 /\ Idle!13
    /\ \E n \in 0..MaxYears :
         \E c \in [1..n -> BaseObservations \X AbsenceMasks] :
           historical_data = ObservationSet(c)

AnalyzeCall ==
    /\ pc = "call"
    /\ analysis' = analyze_weather_data(historical_data)
    /\ pc' = "returned"
    /\ UNCHANGED <<form, target_datetime, coords, response, historical_data,
                   tip, flashes, outcome, calls, raised, args, label>>

SpecAnalyze == InitAnalyze /\ [][AnalyzeCall]_vars

\* get_historical_weather_nasa called with a window of at most MaxYears years.
InitBuild ==
    /\ pc = "call"
    /\ Idle!1 /\ Idle!2 /\ Idle!3 /\ Idle!5 /\ Idle!6 /\ Idle!7
    /\ Idle!8 /\ Idle!9 /\ Idle!10 /\ Idle!11 /\ Idle!13
    /\ \E current_year \in CurrentYears, years \in 0..MaxYears,
          target_date \in TargetDates :
         /\ args = [current_year |-> current_year, years |-> years,
                    target_date |-> target_date]
         /\ response \in BuilderResponses(current_year, target_date)

BuildCall ==
    /\ pc = "call"
    /\ historical_data' = get_historical_weather_nasa(
                              response, args.current_year, args.target_date, args.years)
    /\ pc' = "returned"
    /\ UNCHANGED <<form, target_datetime, coords, response, analysis, tip,
                   flashes, outcome, calls, raised, args, label>>

SpecBuild == InitBuild /\ [][BuildCall]_vars

\* ------------------------------------------------------------------ claims

\* The conditions of the classifier's rules, in their order, on statistics a.
RuleHolds(a) ==
    << a.avg_rain > 100, a.max_temp > 320, a.avg_temp < 100, a.max_wind > 120,
       180 <= a.avg_temp /\ a.avg_temp <= 250, a.avg_temp > 250, TRUE >>

RuleLabel == <<"Rainy", "Hot", "Cold", "Windy", "Pleasant", "Warm", "Cool">>

\* C1: determine_main_condition returns one of the seven labels, and it is the
\* label of the earliest rule, in the order rain > 10, max temperature > 32,
\* average temperature < 10, max wind > 12, 18 <= average temperature <= 25,
\* average temperature > 25, otherwise, whose condition holds.
C1_EarliestRuleWins ==
    pc = "returned" =>
        /\ label # None
        /\ label[1] \in Labels
        /\ \E i \in 1..7 :
              /\ RuleHolds(args)[i]
              /\ \A j \in 1..(i - 1) : ~RuleHolds(args)[j]
              /\ label[1] = RuleLabel[i]

\* The rain, heat and wind rules all hold, and the label is Rainy.
C1_Witness ==
    /\ pc = "returned"
    /\ args.avg_rain > 100 /\ args.max_temp > 320 /\ args.max_wind > 120
    /\ label = Some("Rainy")

\* The entries of the observation set that have field f.
Present(f) == {i \in DOMAIN historical_data : historical_data[i][f] # None}

\* C2: analyze_weather_data returns no result exactly when the observation set
\* is empty or every entry lacks temp_avg; one present temp_avg is enough for a
\* result, whatever else is missing.
C2_NoResultIffNoTempAvg ==
    pc = "returned" =>
        (analysis = None <=> (Len(historical_data) = 0 \/ Present("temp_avg") = {}))

\* A result from a set in which one entry lacks temp_avg and another has
\* nothing but temp_avg.
C2_Witness ==
    /\ pc = "returned"
    /\ analysis # None
    /\ \E i \in DOMAIN historical_data : historical_data[i].temp_avg = None
    /\ \E i \in DOMAIN historical_data :
          /\ historical_data[i].temp_avg # None
          /\ \A f \in Fields \ {"temp_avg"} : historical_data[i][f] = None

ProbabilityField ==
    [very_hot |-> "temp_max", very_cold |-> "temp_min",
     very_windy |-> "wind_max", very_wet |-> "precip"]

\* C4: each extreme probability of a result is an integer from 0 to 100, and
\* it is 0 when no entry has the field it reads.
C4_ProbabilityRange ==
    (pc = "returned" /\ analysis # None) =>
        \A k \in DOMAIN ProbabilityField :
            /\ analysis[1].probabilities[k] \in 0..100
            /\ Present(ProbabilityField[k]) = {} => analysis[1].probabilities[k] = 0

\* No entry has temp_min, while every entry is very hot.
C4_Witness ==
    /\ pc = "returned"
    /\ analysis # None
    /\ Present("temp_min") = {}
    /\ analysis[1].probabilities.very_cold = 0
    /\ analysis[1].probabilities.very_hot = 100

\* The entries whose field crosses the threshold of extreme kind k.
Crossing(k) ==
    {i \in Present(ProbabilityField[k]) :
        LET v == historical_data[i][ProbabilityField[k]][1]
        IN  CASE k = "very_hot"   -> v > 30
              [] k = "very_cold"  -> v < 10
              [] k = "very_windy" -> v > 10
              [] k = "very_wet"   -> v > 10}

\* C5: each extreme probability is the integer nearest to 100 * (entries whose
\* field is present and crosses the threshold) / (all entries of the set).
C5_ProbabilityOverAllEntries ==
    (pc = "returned" /\ analysis # None) =>
        \A k \in DOMAIN ProbabilityField :
            LET p     == analysis[1].probabilities[k]
                total == Len(historical_data)
                diff  == 100 * Cardinality(Crossing(k)) - p * total
            IN  2 * diff <= total /\ -2 * diff <= total

\* Of two or more entries only some have temp_max, all of those are very hot,
\* and very_hot is below 100.
C5_Witness ==
    /\ pc = "returned"
    /\ analysis # None
    /\ Present("temp_max") # {}
    /\ Present("temp_max") # DOMAIN historical_data
    /\ Crossing("very_hot") = Present("temp_max")
    /\ analysis[1].probabilities.very_hot \in 1..99

RECURSIVE SumOver(_, _)
SumOver(S, f) ==
    IF S = {} THEN 0
    ELSE LET i == CHOOSE j \in S : TRUE
         IN  historical_data[i][f][1] + SumOver(S \ {i}, f)

\* m, in tenths, is the mean of field f over the entries that have it,
\* rounded to one decimal.
IsMeanOfPresent(m, f) ==
    LET n    == Cardinality(Present(f))
        diff == 10 * SumOver(Present(f), f) - m * n
    IN  2 * diff <= n /\ -2 * diff <= n

\* x, in tenths, is the least value of field f among the entries that have it.
IsMinOfPresent(x, f) ==
    /\ \E i \in Present(f) : x = 10 * historical_data[i][f][1]
    /\ \A i \in Present(f) : x <= 10 * historical_data[i][f][1]

IsMaxOfPresent(x, f) ==
    /\ \E i \in Present(f) : x = 10 * historical_data[i][f][1]
    /\ \A i \in Present(f) : x >= 10 * historical_data[i][f][1]

\* C6: each statistic is taken over exactly the entries that have its field:
\* an entry that lacks other fields still contributes, a missing field
\* contributes nothing.  So with two entries of which one has precip, and that
\* is 15, the average precipitation is 15 and the label is Rainy.
C6_PerFieldFiltering ==
    (pc = "returned" /\ analysis # None) =>
        LET r == analysis[1]
        IN  /\ IsMeanOfPresent(r.avg_temp, "temp_avg")
            /\ Present("temp_min") # {} => IsMinOfPresent(r.temp_range.min, "temp_min")
            /\ Present("temp_max") # {} => IsMaxOfPresent(r.temp_range.max, "temp_max")
            /\ Present("wind_avg") # {} => IsMeanOfPresent(r.wind_info.avg, "wind_avg")
            /\ Present("wind_max") # {} => IsMaxOfPresent(r.wind_info.max, "wind_max")
            /\ Present("precip") # {} =>
                  /\ IsMeanOfPresent(r.rain_info.avg, "precip")
                  /\ IsMaxOfPresent(r.rain_info.max, "precip")
            /\ (/\ Len(historical_data) = 2
                /\ \E i \in 1..2 : /\ Present("precip") = {i}
                                   /\ historical_data[i].precip = Some(15))
               => (r.rain_info.avg = 150 /\ r.main_prediction = "Rainy")

\* Two years, one without wind and precipitation, the other complete with a
\* precipitation of 15: the average is 15 and the label Rainy.
C6_Witness ==
    /\ pc = "returned"
    /\ analysis # None
    /\ Len(historical_data) = 2
    /\ \A f \in {"wind_avg", "wind_max", "precip"} : historical_data[1][f] = None
    /\ historical_data[1].temp_avg = Some(5)
    /\ \A f \in Fields : historical_data[2][f] # None
    /\ historical_data[2].precip = Some(15)
    /\ analysis[1].rain_info.avg = 150
    /\ analysis[1].avg_temp = 160
    /\ analysis[1].main_prediction = "Rainy"

\* The steps of the handler, in their order.
StepOrder ==
    << "get_coordinates", "get_historical_weather_nasa", "analyze_weather_data",
       "generate_tip" >>

\* C7: the handler resolves the location, fetches the data, analyses and
\* advises in that order, and takes a step only after every earlier step
\* succeeded: no fetch or analysis without coordinates, no analysis and no
\* generate_tip on an empty observation set, no generate_tip without a result.
C7_StepsInOrder ==
    /\ Len(calls) <= Len(StepOrder)
    /\ calls = SubSeq(StepOrder, 1, Len(calls))
    /\ Len(calls) >= 1 => (Strip(form.location) # <<>> /\ target_datetime # None)
    /\ Len(calls) >= 2 => coords # None
    /\ Len(calls) >= 3 => historical_data # <<>>
    /\ Len(calls) >= 4 => analysis # None
    /\ (pc = "done" /\ raised = None /\ outcome = "redirect_home") =>
          CASE Len(calls) = 0 -> TRUE
            [] Len(calls) = 1 -> coords = None
            [] Len(calls) = 2 -> historical_data = <<>>
            [] Len(calls) = 3 -> analysis = None
            [] OTHER -> FALSE

\* A request whose fetch yields an empty set ends after two steps.
C7_Witness ==
    /\ pc = "done"
    /\ calls = <<"get_coordinates", "get_historical_weather_nasa">>
    /\ coords # None
    /\ ~response.raises /\ response.status_code = 200
    /\ historical_data = <<>>
    /\ analysis = None /\ tip = None

\* The request ended for want of historical data: the set came back empty ...
EndedOnEmptySet ==
    /\ pc = "done" /\ raised = None
    /\ Len(calls) = 2 /\ historical_data = <<>>

\* ... or every record of a non-empty set lacks its temperature average.
EndedOnNoTempAvg ==
    /\ pc = "done" /\ raised = None
    /\ Len(calls) = 3 /\ historical_data # <<>>
    /\ Present("temp_avg") = {}

\* C8 as stated: both causes end with the one "could not get data" message.
C8_SameMessage ==
    (EndedOnEmptySet \/ EndedOnNoTempAvg) =>
        (outcome = "redirect_home" /\
         flashes = <<"Could not get NASA weather data. Try again.">>)

\* C8, amended: both causes end with one flashed error and the redirect home;
\* the message is "Could not get NASA weather data. Try again." for an empty
\* set and "Error analyzing the data." for records without temperature average.
C8_MessagePerCause ==
    /\ EndedOnEmptySet =>
          (outcome = "redirect_home" /\
           flashes = <<"Could not get NASA weather data. Try again.">>)
    /\ EndedOnNoTempAvg =>
          (outcome = "redirect_home" /\ flashes = <<"Error analyzing the data.">>)

\* A request whose records all have a null T2M has ended.
C8_Witness ==
    /\ EndedOnNoTempAvg
    /\ Len(historical_data) = 2
    /\ flashes = <<"Error analyzing the data.">>

\* C9: the handler ends either with the results page, rendered from a result
\* and its advisory with nothing flashed, or with exactly one flashed message
\* and the redirect home; nothing is flashed or returned before the end, no
\* step before the end is stuck, and no exception leaves the handler.
C9_OneOfTwoOutcomes ==
    /\ outcome # "unhandled"
    /\ pc = "done" =>
          \/ /\ outcome = "rendered"
             /\ flashes = <<>> /\ raised = None
             /\ analysis # None /\ tip # None
          \/ /\ outcome = "redirect_home"
             /\ Len(flashes) = 1
    /\ pc # "done" => (outcome = "pending" /\ flashes = <<>> /\ ENABLED Next)

\* The analysis raised, and the request ended with one message and the redirect.
C9_Witness ==
    /\ pc = "done"
    /\ raised = Some("TypeError")
    /\ outcome = "redirect_home"
    /\ flashes = <<"An unexpected error occurred.">>

\* The response is a 200 with a JSON body that has properties.parameter.
WellFormed(resp) ==
    /\ ~resp.raises /\ resp.status_code = 200 /\ resp.json_ok
    /\ "properties" \in DOMAIN resp.data
    /\ "parameter" \in DOMAIN resp.data["properties"]

\* The parameter of the response that feeds each field of an entry.
FieldParam ==
    [temp_avg |-> "T2M", temp_max |-> "T2M_MAX", temp_min |-> "T2M_MIN",
     wind_avg |-> "WS10M", wind_max |-> "WS10M_MAX", precip |-> "PRECTOTCORR"]

\* The value the response holds for parameter p on date d, if any.
Held(p, d) ==
    LET parameter == response.data["properties"]["parameter"]
    IN  IF p \in DOMAIN parameter /\ d \in DOMAIN parameter[p]
        THEN parameter[p][d] ELSE None

\* The years of the window for which the response has a T2M entry on the
\* target day.
YearsWithData ==
    LET parameter == response.data["properties"]["parameter"]
    IN  {y \in (args.current_year - args.years)..(args.current_year - 1) :
            /\ "T2M" \in DOMAIN parameter
            /\ DateStr(y, args.target_date.month, args.target_date.day)
                   \in DOMAIN parameter["T2M"]}

====
